---- MODULE Spec2Model ----
(***************************************************************************)
(* Model of server.py: a static file server with a /config.js injector and *)
(* a reverse proxy for /api/ paths, run by socketserver.TCPServer, which   *)
(* handles one connection at a time in the thread of serve_forever.        *)
(*                                                                         *)
(* A header list is a sequence of <<name, value>> pairs.  An optional      *)
(* value (Python's None) is the empty sequence, a present value v is <<v>>.*)
(***************************************************************************)
EXTENDS Integers, Sequences, FiniteSets, TLC

VARIABLES
    host,        \* databricks_config['host']
    token,       \* databricks_config['token'], from DATABRICKS_TOKEN
    pending,     \* connections waiting in the listen backlog of the TCPServer
    pc,          \* position of the single serving thread
    req,         \* the request parsed by the handler of the current connection
    outbound,    \* the urllib requests issued for the current request
    backend,     \* what urlopen produced for the current request
    responses,   \* the status line + header blocks written to the caller
    body_out,    \* the body chunks written to the caller (wfile.write)
    escaped      \* an exception left the do_* method of the handler

vars == <<host, token, pending, pc, req, outbound, backend,
          responses, body_out, escaped>>

----------------------------------------------------------------------------
(* Bounds of the model *)

MaxPending == 1
MaxHeaders == 2
MaxBackendHeaders == 2

----------------------------------------------------------------------------
(* Strings *)

\* str.lower() on the header names that occur
Lower(s) ==
    CASE s = "X-Forwarded-Access-Token" -> "x-forwarded-access-token"
      [] s = "Authorization"            -> "authorization"
      [] s = "Content-Length"           -> "content-length"
      [] s = "Transfer-Encoding"        -> "transfer-encoding"
      [] s = "Connection"               -> "connection"
      [] s = "Content-Type"             -> "content-type"
      [] s = "Content-type"             -> "content-type"
      [] s = "X-Request-Id"             -> "x-request-id"
      [] s = "User-Agent"               -> "user-agent"
      [] s = "Cache-Control"            -> "cache-control"
      [] s = "Pragma"                   -> "pragma"
      [] s = "Expires"                  -> "expires"
      [] s = "Server"                   -> "server"
      [] s = "Date"                     -> "date"
      [] s = "Last-Modified"            -> "last-modified"
      [] s = "Location"                 -> "location"
      [] OTHER                          -> s

\* str.startswith / str.endswith
StartsWith(s, p) == Len(s) >= Len(p) /\ SubSeq(s, 1, Len(p)) = p

EndsWith(s, x) == Len(s) >= Len(x) /\ SubSeq(s, Len(s) - Len(x) + 1, Len(s)) = x

\* int(): the parsed number, or <<>> where int() raises ValueError
ParseInt(s) ==
    CASE s = "0" -> <<0>>
      [] s = "2" -> <<2>>
      [] OTHER   -> <<>>

----------------------------------------------------------------------------
(* Header lists (email.message.Message: case-insensitive, first match) *)

RECURSIVE HeadersGet(_, _)
HeadersGet(hs, name) ==
    IF hs = <<>> THEN <<>>
    ELSE IF Lower(Head(hs)[1]) = Lower(name) THEN <<Head(hs)[2]>>
    ELSE HeadersGet(Tail(hs), name)

HeadersContains(hs, name) == HeadersGet(hs, name) # <<>>

\* All sequences over S of length at most n
SeqUpTo(S, n) == UNION {[1..k -> S] : k \in 0..n}

----------------------------------------------------------------------------
(* Inputs *)

Hosts == {"", "dbx.example.com"}
Tokens == {"", "dapi-dev"}
ClientIds == {"", "client-1"}

Methods == {"GET", "POST", "PUT", "PATCH", "DELETE", "HEAD", "OPTIONS"}

Paths == {"/", "/index.html", "/app.js", "/config.js", "/favicon.ico",
          "/api/x", "/api/x.html"}

InboundHeaderLines ==
    { <<"X-Forwarded-Access-Token", "">>,
      <<"x-forwarded-access-token", "T1">>,
      <<"Authorization", "Basic V1">>,
      <<"Content-Length", "abc">>,
      <<"Content-Length", "2">> }

InboundHeaders == SeqUpTo(InboundHeaderLines, MaxHeaders)

\* The requests a client can send with the given methods
RequestsOf(ms) == [method : ms, path : Paths, headers : InboundHeaders]

NoReq == [method |-> "", path |-> "", headers |-> <<>>]

BackendHeaderLines ==
    { <<"Transfer-Encoding", "chunked">>,
      <<"connection", "keep-alive">>,
      <<"Content-Type", "text/plain">>,
      <<"X-Request-Id", "r1">> }

BackendHeaders == SeqUpTo(BackendHeaderLines, MaxBackendHeaders)

\* urlopen returns only 2xx responses; every other status raises HTTPError
SuccessCodes == {200}
ErrorCodes == {404}

NoBackend == [kind |-> "none", status |-> 0, headers |-> <<>>, fp |-> FALSE]

----------------------------------------------------------------------------
(* Responses written to the caller *)

NoCacheHeaders ==
    << <<"Cache-Control", "no-cache, no-store, must-revalidate">>,
       <<"Pragma", "no-cache">>,
       <<"Expires", "0">> >>

\* BaseHTTPRequestHandler.send_response: the status line, Server and Date
send_response(code) ==
    << <<"Server", "SimpleHTTP">>, <<"Date", "now">> >>

\* Mutant: the root path is not treated as an HTML response
end_headers_HtmlSuffixOnly(path, hdrs) ==
    IF EndsWith(path, ".html")
    THEN hdrs \o NoCacheHeaders
    ELSE hdrs

\* CustomHandler.end_headers: the header block that is flushed for self.path
end_headers(path, hdrs) ==
    IF EndsWith(path, ".html") \/ path = "/" \/ path = "/index.html"
    THEN hdrs \o NoCacheHeaders
    ELSE hdrs

\* One status line and header block, as flushed by end_headers
Written(code, hdrs, path, by) ==
    [status |-> code, headers |-> end_headers(path, send_response(code) \o hdrs),
     by |-> by]

\* BaseHTTPRequestHandler.send_error, which ends with self.end_headers()
send_error(code, path) ==
    Written(code,
            << <<"Connection", "close">>,
               <<"Content-Type", "text/html;charset=utf-8">>,
               <<"Content-Length", "n">> >>,
            path, "send_error")

----------------------------------------------------------------------------
(* Reverse proxy *)

\* Mutant: the prefix test accepts every path
IsApiPath_AnyPath(path) == StartsWith(path, "/")

IsApiPath(path) == StartsWith(path, "/api/")

\* Mutant: the inbound Authorization header wins over the forwarded token
CredentialHeaders_AuthorizationFirst(hs) ==
    LET obo_token == HeadersGet(hs, "X-Forwarded-Access-Token")
    IN  IF HeadersContains(hs, "Authorization")
        THEN << <<"Authorization", HeadersGet(hs, "Authorization")[1]>> >>
        ELSE IF obo_token # <<>> /\ obo_token[1] # ""
        THEN << <<"Authorization", "Bearer " \o obo_token[1]>> >>
        ELSE <<>>

\* Mutant: without a caller credential the configured dev token is sent
CredentialHeaders_TokenFallback(hs) ==
    LET obo_token == HeadersGet(hs, "X-Forwarded-Access-Token")
    IN  IF obo_token # <<>> /\ obo_token[1] # ""
        THEN << <<"Authorization", "Bearer " \o obo_token[1]>> >>
        ELSE IF HeadersContains(hs, "Authorization")
        THEN << <<"Authorization", HeadersGet(hs, "Authorization")[1]>> >>
        ELSE IF token # ""
        THEN << <<"Authorization", "Bearer " \o token>> >>
        ELSE <<>>

\* The Authorization header chosen for the outbound request
CredentialHeaders(hs) ==
    LET obo_token == HeadersGet(hs, "X-Forwarded-Access-Token")
    IN  IF obo_token # <<>> /\ obo_token[1] # ""
        THEN << <<"Authorization", "Bearer " \o obo_token[1]>> >>
        ELSE IF HeadersContains(hs, "Authorization")
        THEN << <<"Authorization", HeadersGet(hs, "Authorization")[1]>> >>
        ELSE <<>>

OutboundRequest(r, method, body) ==
    [method  |-> method,
     url     |-> "https://" \o host \o r.path,
     headers |-> << <<"Content-Type", "application/json">>,
                    <<"User-Agent", "Databricks-App/1.0">> >>
                 \o CredentialHeaders(r.headers),
     data    |-> body]

\* Mutant: the hop-by-hop names are compared without header.lower()
RECURSIVE RelayedHeaders_CaseSensitive(_)
RelayedHeaders_CaseSensitive(bh) ==
    IF bh = <<>> THEN <<>>
    ELSE IF Head(bh)[1] \notin {"transfer-encoding", "connection"}
    THEN <<Head(bh)>> \o RelayedHeaders_CaseSensitive(Tail(bh))
    ELSE RelayedHeaders_CaseSensitive(Tail(bh))

\* The backend headers that are relayed on success
RECURSIVE RelayedHeaders(_)
RelayedHeaders(bh) ==
    IF bh = <<>> THEN <<>>
    ELSE IF Lower(Head(bh)[1]) \notin {"transfer-encoding", "connection"}
    THEN <<Head(bh)>> \o RelayedHeaders(Tail(bh))
    ELSE RelayedHeaders(Tail(bh))

\* proxy_api_request up to the point where urlopen blocks
proxy_api_request(r, method, body) ==
    /\ req' = r
    /\ IF host = ""
       THEN /\ responses' = <<send_error(500, r.path)>>
            /\ body_out' = <<"error_page">>
            /\ outbound' = <<>>
            /\ pc' = "done"
       ELSE /\ outbound' = <<OutboundRequest(r, method, body)>>
            /\ responses' = <<>>
            /\ body_out' = <<>>
            /\ pc' = "urlopen"
    /\ UNCHANGED <<host, token, pending, backend, escaped>>

\* The answer of a handler that does not forward
Answer(r, resp, body) ==
    /\ req' = r
    /\ responses' = <<resp>>
    /\ body_out' = body
    /\ pc' = "done"
    /\ UNCHANGED <<host, token, pending, outbound, backend, escaped>>

\* An exception leaves the do_* method before anything is written
Raise(r) ==
    /\ req' = r
    /\ escaped' = TRUE
    /\ pc' = "done"
    /\ UNCHANGED <<host, token, pending, outbound, backend,
                   responses, body_out>>

----------------------------------------------------------------------------
(* Static files and /config.js *)

\* The generated script; os.getenv('DATABRICKS_CLIENT_ID', '') is read per call
ConfigJs(databricks_host, cid) ==
    "window.APP_CONFIG = { databricksHost: '" \o databricks_host
    \o "', isOBO: " \o (IF cid # "" THEN "true" ELSE "false")
    \o ", clientId: '" \o cid \o "' };"

\* Mutant: /config.js is sent without its Cache-Control header
ConfigJsHeaders_NoCacheControl ==
    << <<"Content-type", "application/javascript">> >>

ConfigJsHeaders ==
    << <<"Content-type", "application/javascript">>,
       <<"Cache-Control", "no-cache, no-store, must-revalidate">> >>

\* SimpleHTTPRequestHandler.send_head: the file is served, the directory is
\* redirected to its slash form, the file is not modified, or it is not found
StaticStatuses == {200, 301, 304, 404}

StaticResponse(st, path) ==
    CASE st = 200 -> Written(200, << <<"Content-type", "file/type">>,
                                     <<"Content-Length", "n">>,
                                     <<"Last-Modified", "then">> >>,
                             path, "static")
      [] st = 301 -> Written(301, << <<"Location", path \o "/">>,
                                     <<"Content-Length", "0">> >>,
                             path, "static")
      [] st = 304 -> Written(304, <<>>, path, "static")
      [] OTHER    -> send_error(st, path)

----------------------------------------------------------------------------
(* The server loop: socketserver.TCPServer.serve_forever *)

Init ==
    /\ host \in Hosts
    /\ token \in Tokens
    /\ pending = 0
    /\ pc = "idle"
    /\ req = NoReq
    /\ outbound = <<>>
    /\ backend = NoBackend
    /\ responses = <<>>
    /\ body_out = <<>>
    /\ escaped = FALSE

\* A client connects; the connection waits until the serving thread accepts it
Connect ==
    /\ pending < MaxPending
    /\ pending' = pending + 1
    /\ UNCHANGED <<host, token, pc, req, outbound, backend,
                   responses, body_out, escaped>>

\* The serving thread takes the next connection and builds its handler.  It
\* does so only between two requests: TCPServer runs the handler in the
\* thread of serve_forever.
Accept ==
    /\ pc = "idle"
    /\ pending > 0
    /\ pending' = pending - 1
    /\ pc' = "handle"
    /\ UNCHANGED <<host, token, req, outbound, backend,
                   responses, body_out, escaped>>

\* The handler returned or raised: the connection is shut down
Finish ==
    /\ pc = "done"
    /\ pc' = "idle"
    /\ req' = NoReq
    /\ outbound' = <<>>
    /\ backend' = NoBackend
    /\ responses' = <<>>
    /\ body_out' = <<>>
    /\ escaped' = FALSE
    /\ UNCHANGED <<host, token, pending>>

----------------------------------------------------------------------------
(* The handlers *)

do_GET ==
    /\ pc = "handle"
    /\ \E r \in RequestsOf({"GET"}) :
       IF IsApiPath(r.path)
       THEN proxy_api_request(r, "GET", <<>>)
       ELSE IF r.path = "/config.js"
       THEN \E cid \in ClientIds :
                Answer(r, Written(200, ConfigJsHeaders, r.path, "config"),
                       <<ConfigJs(host, cid)>>)
       ELSE \E st \in StaticStatuses :
                Answer(r, StaticResponse(st, r.path),
                       IF st = 200 THEN <<"file">> ELSE <<"error_page">>)

\* do_POST, do_PUT and do_PATCH: the same code with another method name
ProxyWithBody(r, method) ==
    IF IsApiPath(r.path)
    THEN LET cl == HeadersGet(r.headers, "Content-Length")
             content_length == IF cl = <<>> THEN <<0>> ELSE ParseInt(cl[1])
         IN  IF content_length = <<>>
             THEN Raise(r)
             ELSE proxy_api_request(r, method,
                      IF content_length[1] > 0 THEN <<"bytes">> ELSE <<>>)
    ELSE Answer(r, send_error(405, r.path), <<"error_page">>)

do_POST ==
    /\ pc = "handle"
    /\ \E r \in RequestsOf({"POST"}) :
       ProxyWithBody(r, "POST")

do_PUT ==
    /\ pc = "handle"
    /\ \E r \in RequestsOf({"PUT"}) :
       ProxyWithBody(r, "PUT")

do_PATCH ==
    /\ pc = "handle"
    /\ \E r \in RequestsOf({"PATCH"}) :
       ProxyWithBody(r, "PATCH")

do_DELETE ==
    /\ pc = "handle"
    /\ \E r \in RequestsOf({"DELETE"}) :
       IF IsApiPath(r.path)
       THEN proxy_api_request(r, "DELETE", <<>>)
       ELSE Answer(r, send_error(405, r.path), <<"error_page">>)

\* Inherited from SimpleHTTPRequestHandler: the headers of the static file
do_HEAD ==
    /\ pc = "handle"
    /\ \E r \in RequestsOf({"HEAD"}) :
       \E st \in StaticStatuses : Answer(r, StaticResponse(st, r.path), <<>>)

\* BaseHTTPRequestHandler.handle_one_request: the class has no do_<method>
unsupported_method ==
    /\ pc = "handle"
    /\ \E r \in RequestsOf(Methods \ {"GET", "POST", "PUT", "PATCH", "DELETE", "HEAD"}) :
       Answer(r, send_error(501, r.path), <<"error_page">>)

----------------------------------------------------------------------------
(* The outcomes of the blocking outbound call *)

\* urlopen returns a response: status and headers are relayed
urlopen_ok ==
    /\ pc = "urlopen"
    /\ \E st \in SuccessCodes, bh \in BackendHeaders :
          /\ backend' = [kind |-> "ok", status |-> st, headers |-> bh,
                         fp |-> TRUE]
          /\ responses' = Append(responses,
                 Written(st, RelayedHeaders(bh), req.path, "relay"))
    /\ pc' = "read"
    /\ UNCHANGED <<host, token, pending, req, outbound, body_out,
                   escaped>>

\* response.read() returns and the body is written
read_ok ==
    /\ pc = "read"
    /\ body_out' = Append(body_out, "backend_body")
    /\ pc' = "done"
    /\ UNCHANGED <<host, token, pending, req, outbound, backend,
                   responses, escaped>>

\* response.read() raises: the except Exception branch calls send_error
read_fail ==
    /\ pc = "read"
    /\ responses' = Append(responses, send_error(500, req.path))
    /\ body_out' = Append(body_out, "error_page")
    /\ pc' = "done"
    /\ UNCHANGED <<host, token, pending, req, outbound, backend,
                   escaped>>

\* urlopen raises HTTPError: status and a JSON content type are written
urlopen_HTTPError ==
    /\ pc = "urlopen"
    /\ \E code \in ErrorCodes, bh \in BackendHeaders :
          /\ backend' = [kind |-> "http_error", status |-> code,
                         headers |-> bh, fp |-> TRUE]
          /\ responses' = Append(responses,
                 Written(code, << <<"Content-Type", "application/json">> >>,
                         req.path, "relay_error"))
    /\ pc' = "err_read"
    /\ UNCHANGED <<host, token, pending, req, outbound, body_out,
                   escaped>>

\* e.read() returns (or e.fp is None) and the error body is written
err_read_ok ==
    /\ pc = "err_read"
    /\ body_out' = Append(body_out,
                          IF backend.fp THEN "backend_error_body" ELSE "{}")
    /\ pc' = "done"
    /\ UNCHANGED <<host, token, pending, req, outbound, backend,
                   responses, escaped>>

\* e.read() raises inside the except HTTPError branch: nothing catches it
err_read_fail ==
    /\ pc = "err_read"
    /\ backend.fp
    /\ escaped' = TRUE
    /\ pc' = "done"
    /\ UNCHANGED <<host, token, pending, req, outbound, backend,
                   responses, body_out>>

\* urlopen raises anything else (DNS, refused, timeout, malformed response)
urlopen_fail ==
    /\ pc = "urlopen"
    /\ backend' = [kind |-> "failed", status |-> 0, headers |-> <<>>,
                   fp |-> FALSE]
    /\ responses' = Append(responses, send_error(500, req.path))
    /\ body_out' = Append(body_out, "error_page")
    /\ pc' = "done"
    /\ UNCHANGED <<host, token, pending, req, outbound, escaped>>

----------------------------------------------------------------------------

Next ==
    \/ Connect
    \/ Accept
    \/ Finish
    \/ do_GET
    \/ do_POST
    \/ do_PUT
    \/ do_PATCH
    \/ do_DELETE
    \/ do_HEAD
    \/ unsupported_method
    \/ urlopen_ok
    \/ urlopen_HTTPError
    \/ urlopen_fail
    \/ read_ok
    \/ read_fail
    \/ err_read_ok
    \/ err_read_fail

Spec == Init /\ [][Next]_vars

----------------------------------------------------------------------------
(* Properties *)

Range(seq) == {seq[i] : i \in 1..Len(seq)}

HeaderNames(hs) == {Lower(h[1]) : h \in Range(hs)}

Forwarded == outbound # <<>>

OutboundAuthorization == HeadersGet(outbound[1].headers, "Authorization")

InboundForwardedToken == HeadersGet(req.headers, "X-Forwarded-Access-Token")

InboundAuthorization == HeadersGet(req.headers, "Authorization")

ApiPrefixed == StartsWith(req.path, "/api/")

HtmlOrRoot == EndsWith(req.path, ".html") \/ req.path = "/"

HopByHop == {"transfer-encoding", "connection"}

\* C1 as stated: a forwarded request that carries X-Forwarded-Access-Token: T
\* goes out with Authorization: Bearer T, whatever T is.
C1_BearerForAnyForwardedToken ==
    (Forwarded /\ InboundForwardedToken # <<>>)
        => OutboundAuthorization = <<"Bearer " \o InboundForwardedToken[1]>>

\* C1 amended: a forwarded request whose X-Forwarded-Access-Token (its first
\* occurrence) has a non-empty value T goes out with Authorization: Bearer T,
\* whatever Authorization header the request also carries.
C1_BearerForNonEmptyForwardedToken ==
    (Forwarded /\ InboundForwardedToken # <<>> /\ InboundForwardedToken[1] # "")
        => OutboundAuthorization = <<"Bearer " \o InboundForwardedToken[1]>>

C1_Witness ==
    /\ Forwarded
    /\ InboundForwardedToken = <<"T1">>
    /\ InboundAuthorization = <<"Basic V1">>
    /\ OutboundAuthorization = <<"Bearer T1">>

\* C2: a forwarded request without X-Forwarded-Access-Token goes out with
\* exactly the inbound Authorization header, or with none when the request has
\* none; the configured DATABRICKS_TOKEN is never put on an outbound request.
C2_AuthorizationPassedThrough ==
    /\ (Forwarded /\ InboundForwardedToken = <<>>)
          => /\ OutboundAuthorization = InboundAuthorization
             /\ Cardinality({i \in 1..Len(outbound[1].headers) :
                    Lower(outbound[1].headers[i][1]) = "authorization"}) <= 1
    /\ (Forwarded /\ token # "")
          => \A h \in Range(outbound[1].headers) :
                 h[2] \notin {token, "Bearer " \o token}

C2_Witness ==
    /\ Forwarded
    /\ token # ""
    /\ InboundForwardedToken = <<>>
    /\ InboundAuthorization = <<>>
    /\ OutboundAuthorization = <<>>

\* C3: with an empty host every GET/POST/PUT/PATCH/DELETE request to an /api/
\* path is answered with status 500 and no outbound call is made.
C3_EmptyHostAnswers500 ==
    (/\ pc = "done"
     /\ host = ""
     /\ ApiPrefixed
     /\ req.method \in {"GET", "POST", "PUT", "PATCH", "DELETE"})
        => /\ outbound = <<>>
           /\ Len(responses) = 1
           /\ responses[1].status = 500

\* C4: every handled request ends with a response written to the caller and
\* with no exception leaving the request handler.
C4_EveryFailureBecomesAResponse ==
    pc = "done" => (~escaped /\ Len(responses) >= 1)

\* C5: while a request is blocked in its outbound call, a waiting connection
\* can still be accepted and handled.
C5_StalledCallBlocksNobody ==
    (pc = "urlopen" /\ pending > 0) => ENABLED Accept

\* C6 as stated: a request that is neither a GET nor a POST/PUT/PATCH/DELETE on
\* an /api/ path is answered 405 and makes no outbound call.
C6_EverythingElseIs405 ==
    (/\ pc = "done"
     /\ req.method # "GET"
     /\ ~(ApiPrefixed /\ req.method \in {"POST", "PUT", "PATCH", "DELETE"}))
        => /\ outbound = <<>>
           /\ Len(responses) = 1
           /\ responses[1].status = 405

\* C6 amended: such a request never makes an outbound call; it is answered 405
\* when its method is POST, PUT, PATCH or DELETE, by the static file handler
\* (200, 301, 304 or 404) when its method is HEAD, and 501 for any other
\* method.
C6_NonApiWriteMethodsAre405 ==
    (/\ pc = "done"
     /\ req.method # "GET"
     /\ ~(ApiPrefixed /\ req.method \in {"POST", "PUT", "PATCH", "DELETE"}))
        => /\ outbound = <<>>
           /\ Len(responses) = 1
           /\ req.method \in {"POST", "PUT", "PATCH", "DELETE"}
                 => responses[1].status = 405
           /\ req.method = "HEAD" => responses[1].status \in {200, 301, 304, 404}
           /\ req.method \notin {"POST", "PUT", "PATCH", "DELETE", "HEAD"}
                 => responses[1].status = 501

C6_Witness ==
    /\ pc = "done"
    /\ req.method = "DELETE"
    /\ req.path = "/favicon.ico"
    /\ Len(responses) = 1
    /\ responses[1].status = 405
    /\ outbound = <<>>

\* C7: every response to a request whose path ends in .html or is / carries
\* the three no-cache headers, whichever component wrote it; the response to
\* GET /app.js carries none of them.
C7_NoCacheOnHtmlAndRoot ==
    \A i \in 1..Len(responses) :
        /\ HtmlOrRoot => Range(NoCacheHeaders) \subseteq Range(responses[i].headers)
        /\ (req.method = "GET" /\ req.path = "/app.js")
              => HeaderNames(responses[i].headers)
                     \cap {"cache-control", "pragma", "expires"} = {}

C7_Witness ==
    /\ req.path = "/"
    /\ req.method = "GET"
    /\ Len(responses) = 1
    /\ responses[1].by = "static"
    /\ Range(NoCacheHeaders) \subseteq Range(responses[1].headers)

\* C8 as stated: a relayed backend response, success or HTTP error, never has
\* the backend's Transfer-Encoding or Connection header, and has every other
\* backend header unchanged.
C8_AllOtherHeadersRelayed ==
    \A i \in 1..Len(responses) :
        responses[i].by \in {"relay", "relay_error"}
            => /\ HeaderNames(responses[i].headers) \cap HopByHop = {}
               /\ \A h \in Range(backend.headers) :
                      Lower(h[1]) \notin HopByHop
                          => h \in Range(responses[i].headers)

\* C8 amended: a relayed backend response, success or HTTP error, never has
\* the backend's Transfer-Encoding or Connection header; a relayed success
\* response has every other backend header unchanged, while a relayed HTTP
\* error response has none of the backend's headers, only Content-Type:
\* application/json next to the headers the server adds itself.
C8_OtherHeadersRelayedOnSuccess ==
    \A i \in 1..Len(responses) :
        /\ responses[i].by \in {"relay", "relay_error"}
              => HeaderNames(responses[i].headers) \cap HopByHop = {}
        /\ responses[i].by = "relay"
              => \A h \in Range(backend.headers) :
                     Lower(h[1]) \notin HopByHop
                         => h \in Range(responses[i].headers)
        /\ responses[i].by = "relay_error"
              => Range(responses[i].headers)
                     \subseteq Range(send_response(responses[i].status))
                         \cup {<<"Content-Type", "application/json">>}
                         \cup Range(NoCacheHeaders)

C8_Witness ==
    /\ backend.kind = "ok"
    /\ backend.headers = << <<"Transfer-Encoding", "chunked">>,
                            <<"X-Request-Id", "r1">> >>
    /\ Len(responses) = 1
    /\ <<"X-Request-Id", "r1">> \in Range(responses[1].headers)
    /\ "transfer-encoding" \notin HeaderNames(responses[1].headers)

\* C9 as stated: GET /config.js is answered 200 with content type
\* application/javascript and all three no-cache headers.
C9_ConfigJsHasAllNoCacheHeaders ==
    (pc = "done" /\ req.method = "GET" /\ req.path = "/config.js")
        => /\ Len(responses) = 1
           /\ responses[1].status = 200
           /\ <<"Content-type", "application/javascript">>
                  \in Range(responses[1].headers)
           /\ Range(NoCacheHeaders) \subseteq Range(responses[1].headers)

\* C9 amended: GET /config.js is answered 200 with content type
\* application/javascript and Cache-Control: no-cache, no-store,
\* must-revalidate, but with neither Pragma nor Expires, whatever the
\* environment and the host are.
C9_ConfigJsHasCacheControlOnly ==
    (pc = "done" /\ req.method = "GET" /\ req.path = "/config.js")
        => /\ Len(responses) = 1
           /\ responses[1].status = 200
           /\ <<"Content-type", "application/javascript">>
                  \in Range(responses[1].headers)
           /\ <<"Cache-Control", "no-cache, no-store, must-revalidate">>
                  \in Range(responses[1].headers)
           /\ HeaderNames(responses[1].headers) \cap {"pragma", "expires"} = {}
           /\ ~escaped

C9_Witness ==
    /\ pc = "done"
    /\ req.method = "GET"
    /\ req.path = "/config.js"
    /\ host = ""
    /\ body_out = <<ConfigJs("", "client-1")>>
    /\ responses[1].status = 200

\* C10: at most one status line and header block is written per request.
C10_AtMostOneResponse ==
    Len(responses) <= 1

====
